---- MODULE Spec2Model ----
(***************************************************************************)
(* State-machine model of the catalog backend: the category, product and   *)
(* review route handlers (app/routers), the rating aggregator and the      *)
(* product image store.  Row ids are positions in the table sequences      *)
(* (server-assigned primary keys 1, 2, ...); rows are never removed.       *)
(***************************************************************************)
EXTENDS Integers, Sequences, FiniteSets, TLC

VARIABLES
    categories,   \* table categories: <<[name, is_active, parent_id]>>
    products,     \* table products:   <<[name, description, price, stock, category_id,
                  \*                      seller_id, image_url, rating, is_active, created_at]>>
    reviews,      \* table reviews:    <<[user_id, product_id, grade, is_active]>>
    files,        \* names of the image files stored under MEDIA_ROOT
    uploads,      \* number of file names generated so far (uuid4 never repeats)
    req,          \* the review requests in flight: handler, position and locals
    resp          \* the response sent by the last step (NoResponse for an inner step)

vars == <<categories, products, reviews, files, uploads, req, resp>>
db == <<categories, products, reviews, files, uploads>>

----------------------------------------------------------------------------
\* Bounds of the model.
MaxCategories == 2
MaxProducts == 2
MaxReviews == 3
MaxUploads == 2
MaxRequests == 2
MaxCatalog == 3

\* SQL NULL / Python None for ids and urls (real ids start at 1).
NULL == 0

Reqs == 1..MaxRequests

\* The users the auth collaborator can resolve, with their role claim.
Users == 1..4
Role(u) == CASE u = 1 -> "seller" [] u = 2 -> "seller" [] u = 3 -> "buyer" [] OTHER -> "admin"
Sellers == {u \in Users : Role(u) = "seller"}
Buyers == {u \in Users : Role(u) = "buyer"}

----------------------------------------------------------------------------
\* Responses.
\* A catalog query: the parameters of GET /products.  An absent parameter
\* (None) is <<>> for search, -1 for the prices, "none" for in_stock and NULL
\* for the ids and the date.
NoQuery == [page |-> 1, page_size |-> 1, category_id |-> NULL, search |-> <<>>,
            min_price |-> -1, max_price |-> -1, in_stock |-> "none",
            seller_id |-> NULL, created_at |-> NULL]

\* The inputs of a request that the checks below read: the id in the path (or
\* of the row created), the current user and the parent_id of the body.
Arg(id, user, parent_id) == [id |-> id, user |-> user, parent_id |-> parent_id]
NoArg == Arg(NULL, NULL, NULL)

\* op, arg: the handler served and its inputs; status: the HTTP status; body:
\* the ids of the entities returned; items, total, query: the ProductList of
\* GET /products.
NoResponse == [op |-> "none", arg |-> NoArg, status |-> 0, body |-> {},
               items |-> <<>>, total |-> 0, query |-> NoQuery]
Response(op, arg, status, body) ==
    [op |-> op, arg |-> arg, status |-> status, body |-> body,
     items |-> <<>>, total |-> 0, query |-> NoQuery]

NoRequest == [op |-> "idle", pc |-> "idle", user |-> NULL, review_id |-> NULL,
              product_id |-> NULL, grade |-> 0, seen |-> {}, avg_rating |-> <<0, 1>>]

AllIdle == \A r \in Reqs : req[r].pc = "idle"

----------------------------------------------------------------------------
\* Row lookups: select(...).where(id == x, is_active == True).first()
CategoryIds == 1..Len(categories)
ProductIds == 1..Len(products)
ReviewIds == 1..Len(reviews)

\* Variants of the lookups below whose WHERE clause lacks is_active == True.
CategoryExists(id) == id \in CategoryIds
ProductExists(id) == id \in ProductIds

ActiveCategory(id) == id \in CategoryIds /\ categories[id].is_active
ActiveProduct(id) == id \in ProductIds /\ products[id].is_active
ActiveReview(id) == id \in ReviewIds /\ reviews[id].is_active

----------------------------------------------------------------------------
\* Categories router.
CategoryNames == {"phones", "laptops"}

\* GET /categories
get_all_categories == {c \in CategoryIds : categories[c].is_active}

\* POST /categories
create_category(name, parent_id) ==
    IF parent_id # NULL /\ ~ActiveCategory(parent_id)
    THEN /\ resp' = Response("create_category", Arg(NULL, NULL, parent_id), 400, {})
         /\ UNCHANGED db
    ELSE /\ Len(categories) < MaxCategories
         /\ categories' = Append(categories,
                [name |-> name, is_active |-> TRUE, parent_id |-> parent_id])
         /\ resp' = Response("create_category", Arg(Len(categories) + 1, NULL, parent_id), 201, {})
         /\ UNCHANGED <<products, reviews, files, uploads>>

\* PUT /categories/{category_id}; parent_set: the body carries parent_id
\* (model_dump(exclude_unset=True) leaves an absent parent_id out of the UPDATE).
update_category(category_id, name, parent_set, parent) ==
    LET parent_id == IF parent_set THEN parent ELSE NULL IN
    IF ~ActiveCategory(category_id)
    THEN /\ resp' = Response("update_category", Arg(category_id, NULL, parent_id), 404, {})
         /\ UNCHANGED db
    ELSE IF parent_id # NULL /\ ~ActiveCategory(parent_id)
    THEN /\ resp' = Response("update_category", Arg(category_id, NULL, parent_id), 400, {})
         /\ UNCHANGED db
    ELSE /\ categories' = [categories EXCEPT ![category_id] =
                [@ EXCEPT !.name = name,
                          !.parent_id = IF parent_set THEN parent_id ELSE @]]
         /\ resp' = Response("update_category", Arg(category_id, NULL, parent_id), 200, {})
         /\ UNCHANGED <<products, reviews, files, uploads>>

\* Variant of delete_category that also deactivates the child categories and
\* the products of the category.
delete_category_cascade(category_id) ==
    IF ~ActiveCategory(category_id)
    THEN /\ resp' = Response("delete_category", Arg(category_id, NULL, NULL), 404, {})
         /\ UNCHANGED db
    ELSE /\ categories' = [c \in CategoryIds |->
                IF c = category_id \/ categories[c].parent_id = category_id
                THEN [categories[c] EXCEPT !.is_active = FALSE] ELSE categories[c]]
         /\ products' = [p \in ProductIds |->
                IF products[p].category_id = category_id
                THEN [products[p] EXCEPT !.is_active = FALSE] ELSE products[p]]
         /\ resp' = Response("delete_category", Arg(category_id, NULL, NULL), 200, {})
         /\ UNCHANGED <<reviews, files, uploads>>

\* DELETE /categories/{category_id}
delete_category(category_id) ==
    IF ~ActiveCategory(category_id)
    THEN /\ resp' = Response("delete_category", Arg(category_id, NULL, NULL), 404, {})
         /\ UNCHANGED db
    ELSE /\ categories' = [categories EXCEPT ![category_id].is_active = FALSE]
         /\ resp' = Response("delete_category", Arg(category_id, NULL, NULL), 200, {})
         /\ UNCHANGED <<products, reviews, files, uploads>>

----------------------------------------------------------------------------
\* Product images (save_product_image / remove_product_image).
ALLOWED_IMAGE_TYPES == {"image/jpeg", "image/png", "image/webp"}
MAX_IMAGE_SIZE == 2097152

NoImage == [present |-> FALSE, content_type |-> "", size |-> 0]
Images == {NoImage,
           [present |-> TRUE, content_type |-> "image/png", size |-> 1048576],
           [present |-> TRUE, content_type |-> "image/gif", size |-> 1048576],
           [present |-> TRUE, content_type |-> "image/jpeg", size |-> 3145728]}

\* The two checks of save_product_image that raise 400.
ImageAccepted(file) ==
    /\ file.content_type \in ALLOWED_IMAGE_TYPES
    /\ file.size <= MAX_IMAGE_SIZE

\* The file name save_product_image generates (a fresh uuid4 per call); the
\* returned url /media/products/<name> is identified with the name.
NewFileName == uploads + 1

\* The files on disk after save_product_image wrote an accepted file.
save_product_image(fs) == fs \cup {NewFileName}

\* The files on disk after remove_product_image(url).
remove_product_image(url, fs) == IF url = NULL THEN fs ELSE fs \ {url}

----------------------------------------------------------------------------
\* Products router.
\* Product names are character sequences (the catalog search reads them).
ProductForms ==
    {[name |-> <<"a", "B", "c">>, description |-> "", price |-> 100, stock |-> 0],
     [name |-> <<"x", "y", "z">>, description |-> "text", price |-> 250, stock |-> 3]}

\* ProductCreate.as_form: the form fields plus the category id.
ProductCreate(form, category_id) ==
    [name |-> form.name, description |-> form.description, price |-> form.price,
     stock |-> form.stock, category_id |-> category_id]

\* Column defaults of a new product row.
DefaultRating == <<0, 1>>
MaxTime == 2
Times == 1..MaxTime

\* Variant of UpdateValues that also resets the rating column.
UpdateValuesAndRating(row, product) ==
    [row EXCEPT !.name = product.name, !.description = product.description,
                !.price = product.price, !.stock = product.stock,
                !.category_id = product.category_id, !.rating = DefaultRating]

\* update(ProductModel).values(**product.model_dump(exclude_unset=True))
UpdateValues(row, product) ==
    [row EXCEPT !.name = product.name, !.description = product.description,
                !.price = product.price, !.stock = product.stock,
                !.category_id = product.category_id]

\* Variant of NotOwner: the ownership check left out.
AnyOwner(product, current_user) == FALSE

\* db_product.seller_id != current_user.id
NotOwner(product, current_user) == product.seller_id # current_user

\* POST /products
create_product(product_create, image, current_user, now) ==
    IF ~ActiveCategory(product_create.category_id)
    THEN /\ resp' = Response("create_product", Arg(NULL, current_user, NULL), 400, {})
         /\ UNCHANGED db
    ELSE IF image.present /\ ~ImageAccepted(image)
    THEN /\ resp' = Response("create_product", Arg(NULL, current_user, NULL), 400, {})
         /\ UNCHANGED db
    ELSE /\ Len(products) < MaxProducts
         /\ image.present => uploads < MaxUploads
         /\ files' = IF image.present THEN save_product_image(files) ELSE files
         /\ uploads' = IF image.present THEN uploads + 1 ELSE uploads
         /\ products' = Append(products,
                [name |-> product_create.name,
                 description |-> product_create.description,
                 price |-> product_create.price,
                 stock |-> product_create.stock,
                 category_id |-> product_create.category_id,
                 seller_id |-> current_user,
                 image_url |-> IF image.present THEN NewFileName ELSE NULL,
                 rating |-> DefaultRating,
                 is_active |-> TRUE,
                 created_at |-> now])
         /\ resp' = Response("create_product", Arg(Len(products) + 1, current_user, NULL), 201, {})
         /\ UNCHANGED <<categories, reviews>>

\* PUT /products/{product_id}.  The UPDATE is executed first; with an image the
\* old file is removed, then save_product_image validates the new one: when it
\* raises, the open transaction is rolled back but the old file is gone.
update_product(product_id, product, image, current_user) ==
    IF ~ActiveProduct(product_id)
    THEN /\ resp' = Response("update_product", Arg(product_id, current_user, NULL), 404, {})
         /\ UNCHANGED db
    ELSE IF NotOwner(products[product_id], current_user)
    THEN /\ resp' = Response("update_product", Arg(product_id, current_user, NULL), 403, {})
         /\ UNCHANGED db
    ELSE IF ~ActiveCategory(product.category_id)
    THEN /\ resp' = Response("update_product", Arg(product_id, current_user, NULL), 400, {})
         /\ UNCHANGED db
    ELSE IF ~image.present
    THEN /\ products' = [products EXCEPT ![product_id] = UpdateValues(@, product)]
         /\ resp' = Response("update_product", Arg(product_id, current_user, NULL), 200, {})
         /\ UNCHANGED <<categories, reviews, files, uploads>>
    ELSE IF ~ImageAccepted(image)
    THEN /\ files' = remove_product_image(products[product_id].image_url, files)
         /\ resp' = Response("update_product", Arg(product_id, current_user, NULL), 400, {})
         /\ UNCHANGED <<categories, products, reviews, uploads>>
    ELSE /\ uploads < MaxUploads
         /\ files' = save_product_image(
                        remove_product_image(products[product_id].image_url, files))
         /\ uploads' = uploads + 1
         /\ products' = [products EXCEPT ![product_id] =
                            [UpdateValues(@, product) EXCEPT !.image_url = NewFileName]]
         /\ resp' = Response("update_product", Arg(product_id, current_user, NULL), 200, {})
         /\ UNCHANGED <<categories, reviews>>

\* Variant of delete_product that removes the row instead of marking it.
delete_product_row(product_id, current_user) ==
    IF ~ActiveProduct(product_id)
    THEN /\ resp' = Response("delete_product", Arg(product_id, current_user, NULL), 404, {})
         /\ UNCHANGED db
    ELSE IF NotOwner(products[product_id], current_user)
    THEN /\ resp' = Response("delete_product", Arg(product_id, current_user, NULL), 403, {})
         /\ UNCHANGED db
    ELSE /\ products' = [p \in 1..(Len(products) - 1) |->
                            IF p < product_id THEN products[p] ELSE products[p + 1]]
         /\ files' = remove_product_image(products[product_id].image_url, files)
         /\ resp' = Response("delete_product", Arg(product_id, current_user, NULL), 200, {})
         /\ UNCHANGED <<categories, reviews, uploads>>

\* DELETE /products/{product_id}
delete_product(product_id, current_user) ==
    IF ~ActiveProduct(product_id)
    THEN /\ resp' = Response("delete_product", Arg(product_id, current_user, NULL), 404, {})
         /\ UNCHANGED db
    ELSE IF NotOwner(products[product_id], current_user)
    THEN /\ resp' = Response("delete_product", Arg(product_id, current_user, NULL), 403, {})
         /\ UNCHANGED db
    ELSE /\ products' = [products EXCEPT ![product_id].is_active = FALSE]
         /\ files' = remove_product_image(products[product_id].image_url, files)
         /\ resp' = Response("delete_product", Arg(product_id, current_user, NULL), 200, {})
         /\ UNCHANGED <<categories, reviews, uploads>>

\* GET /products/category/{category_id}: [status, body]
get_products_by_category(category_id) ==
    IF ~ActiveCategory(category_id)
    THEN [status |-> 404, body |-> {}]
    ELSE [status |-> 200,
          body |-> {p \in ProductIds : products[p].category_id = category_id
                                        /\ products[p].is_active}]

\* GET /products/{product_id}
get_product(product_id) ==
    IF ~ActiveProduct(product_id)
    THEN [status |-> 404, body |-> {}]
    ELSE IF ~ActiveCategory(products[product_id].category_id)
    THEN [status |-> 400, body |-> {}]
    ELSE [status |-> 200, body |-> {product_id}]

\* GET /products/{product_id}/reviews
get_product_reviews(product_id) ==
    IF ~ActiveProduct(product_id)
    THEN [status |-> 404, body |-> {}]
    ELSE [status |-> 200,
          body |-> {v \in ReviewIds : reviews[v].product_id = product_id
                                       /\ reviews[v].is_active}]

----------------------------------------------------------------------------
\* Rating aggregator (update_product_rating).  A rating is the exact fraction
\* <<numerator, denominator>> in lowest terms; 0.0 is <<0, 1>>.
RECURSIVE Gcd(_, _)
Gcd(a, b) == IF b = 0 THEN a ELSE Gcd(b, a % b)

RECURSIVE SumGrades(_)
SumGrades(S) ==
    IF S = {} THEN 0
    ELSE LET v == CHOOSE x \in S : TRUE IN reviews[v].grade + SumGrades(S \ {v})

\* Variant of ActiveReviewsOf whose WHERE clause lacks is_active == True.
AllReviewsOf(product_id) == {v \in ReviewIds : reviews[v].product_id = product_id}

\* The rows of select(...).where(product_id == p, is_active == True)
ActiveReviewsOf(product_id) ==
    {v \in ReviewIds : reviews[v].product_id = product_id /\ reviews[v].is_active}

\* Variant of AvgGrade that takes the highest grade for the average.
MaxGrade(S) ==
    IF S = {} THEN <<0, 1>>
    ELSE <<CHOOSE g \in {reviews[v].grade : v \in S} :
              \A v \in S : reviews[v].grade <= g, 1>>

\* func.avg(grade) over the rows S; result.scalar() or 0.0
AvgGrade(S) ==
    IF S = {} THEN <<0, 1>>
    ELSE LET s == SumGrades(S)
             n == Cardinality(S)
             g == Gcd(s, n)
         IN <<s \div g, n \div g>>

----------------------------------------------------------------------------
\* Reviews router.  A review mutation runs in a request slot r; every await
\* that reaches the database is one step.
GradeInputs == {0, 3, 4, 5, 6}

\* ReviewCreate: grade: int = Field(ge=1, le=5)
ReviewCreateValid(grade) == grade >= 1 /\ grade <= 5

\* Variant of get_all_reviews without the is_active filter.
get_every_review == ReviewIds

\* GET /reviews
get_all_reviews == {v \in ReviewIds : reviews[v].is_active}

\* POST /reviews, up to the checks before the insert.
create_new_review(r, product_id, grade, current_user) ==
    /\ req[r].pc = "idle"
    /\ UNCHANGED db
    /\ IF ~ReviewCreateValid(grade)
       THEN /\ resp' = Response("create_new_review", Arg(product_id, current_user, NULL), 422, {})
            /\ UNCHANGED req
       ELSE IF ~ActiveProduct(product_id)
       THEN /\ resp' = Response("create_new_review", Arg(product_id, current_user, NULL), 404, {})
            /\ UNCHANGED req
       ELSE IF grade < 1 \/ grade > 5
       THEN /\ resp' = Response("create_new_review", Arg(product_id, current_user, NULL), 422, {})
            /\ UNCHANGED req
       ELSE /\ Len(reviews) + Cardinality({q \in Reqs : req[q].pc = "commit_review"})
                  < MaxReviews
            /\ req' = [req EXCEPT ![r] =
                          [NoRequest EXCEPT !.op = "create_new_review",
                                            !.pc = "commit_review",
                                            !.user = current_user,
                                            !.product_id = product_id,
                                            !.grade = grade]]
            /\ resp' = NoResponse

\* db.add(review); await db.commit(); await db.refresh(review)
create_commit(r) ==
    /\ req[r].pc = "commit_review"
    /\ reviews' = Append(reviews,
            [user_id |-> req[r].user, product_id |-> req[r].product_id,
             grade |-> req[r].grade, is_active |-> TRUE])
    /\ req' = [req EXCEPT ![r].review_id = Len(reviews) + 1, ![r].pc = "select_avg"]
    /\ resp' = NoResponse
    /\ UNCHANGED <<categories, products, files, uploads>>

\* Variant of NotAdminNorAuthor: only the author may delete.
NotAuthor(review, current_user) == review.user_id # current_user

\* not (current_user.role == "admin" or review.user_id == current_user.id)
NotAdminNorAuthor(review, current_user) ==
    ~(Role(current_user) = "admin" \/ review.user_id = current_user)

\* DELETE /reviews/{review_id}, up to the checks before the update.
delete_review(r, review_id, current_user) ==
    /\ req[r].pc = "idle"
    /\ UNCHANGED db
    /\ IF ~ActiveReview(review_id)
       THEN /\ resp' = Response("delete_review", Arg(review_id, current_user, NULL), 404, {})
            /\ UNCHANGED req
       ELSE IF NotAdminNorAuthor(reviews[review_id], current_user)
       THEN /\ resp' = Response("delete_review", Arg(review_id, current_user, NULL), 403, {})
            /\ UNCHANGED req
       ELSE /\ req' = [req EXCEPT ![r] =
                          [NoRequest EXCEPT !.op = "delete_review",
                                            !.pc = "commit_delete",
                                            !.user = current_user,
                                            !.review_id = review_id]]
            /\ resp' = NoResponse

\* update(ReviewModel).values(is_active=False); commit; refresh(review)
delete_commit(r) ==
    /\ req[r].pc = "commit_delete"
    /\ reviews' = [reviews EXCEPT ![req[r].review_id].is_active = FALSE]
    /\ req' = [req EXCEPT ![r].product_id = reviews[req[r].review_id].product_id,
                          ![r].pc = "select_avg"]
    /\ resp' = NoResponse
    /\ UNCHANGED <<categories, products, files, uploads>>

\* update_product_rating: the aggregate SELECT.
rating_select_avg(r) ==
    /\ req[r].pc = "select_avg"
    /\ req' = [req EXCEPT ![r].seen = ActiveReviewsOf(req[r].product_id),
                          ![r].avg_rating = AvgGrade(ActiveReviewsOf(req[r].product_id)),
                          ![r].pc = "get_product"]
    /\ resp' = NoResponse
    /\ UNCHANGED db

\* update_product_rating: product = await db.get(ProductModel, product_id)
\* (a missing row gives None, and product.rating = ... then fails: 500)
rating_get_product(r) ==
    /\ req[r].pc = "get_product"
    /\ IF req[r].product_id \in ProductIds
       THEN /\ req' = [req EXCEPT ![r].pc = "commit_rating"]
            /\ resp' = NoResponse
       ELSE /\ req' = [req EXCEPT ![r] = NoRequest]
            /\ resp' = Response(req[r].op, Arg(req[r].review_id, req[r].user, NULL), 500, {})
    /\ UNCHANGED db

\* update_product_rating: product.rating = avg_rating; await db.commit();
\* then the handler returns.
rating_commit(r) ==
    /\ req[r].pc = "commit_rating"
    /\ products' = [products EXCEPT ![req[r].product_id].rating = req[r].avg_rating]
    /\ resp' = Response(req[r].op, Arg(req[r].review_id, req[r].user, NULL),
                        IF req[r].op = "create_new_review" THEN 201 ELSE 200, {})
    /\ req' = [req EXCEPT ![r] = NoRequest]
    /\ UNCHANGED <<categories, reviews, files, uploads>>

----------------------------------------------------------------------------
\* Catalog query engine (GET /products).
Lower(c) == CASE c = "A" -> "a" [] c = "B" -> "b" [] c = "C" -> "c" [] OTHER -> c
LowerStr(s) == [i \in 1..Len(s) |-> Lower(s[i])]

\* str.strip()
RECURSIVE LStrip(_)
LStrip(s) == IF s # <<>> /\ Head(s) = " " THEN LStrip(Tail(s)) ELSE s
RECURSIVE RStrip(_)
RStrip(s) == IF s # <<>> /\ s[Len(s)] = " " THEN RStrip(SubSeq(s, 1, Len(s) - 1)) ELSE s
Strip(s) == RStrip(LStrip(s))

\* SQL: s LIKE p, where % matches any run of characters and _ any one character.
RECURSIVE Like(_, _)
Like(s, p) ==
    IF p = <<>> THEN s = <<>>
    ELSE IF Head(p) = "%" THEN Like(s, Tail(p)) \/ (s # <<>> /\ Like(Tail(s), p))
    ELSE /\ s # <<>>
         /\ Head(p) = "_" \/ Head(p) = Head(s)
         /\ Like(Tail(s), Tail(p))

\* The conjunction of the filters list built for query q, on product row p.
Filters(q, p) ==
    /\ p.is_active
    /\ q.category_id # NULL => p.category_id = q.category_id
    /\ (q.search # <<>> /\ Strip(q.search) # <<>>)
          => Like(LowerStr(p.name), <<"%">> \o LowerStr(Strip(q.search)) \o <<"%">>)
    /\ q.min_price # -1 => p.price >= q.min_price
    /\ q.max_price # -1 => p.price <= q.max_price
    /\ q.in_stock # "none" => IF q.in_stock = "true" THEN p.stock > 0 ELSE p.stock = 0
    /\ q.seller_id # NULL => p.seller_id = q.seller_id
    /\ q.created_at # NULL => p.created_at >= q.created_at

\* .order_by(ProductModel.id)
RECURSIVE OrderById(_)
OrderById(S) ==
    IF S = {} THEN <<>>
    ELSE LET m == CHOOSE x \in S : \A y \in S : x <= y IN <<m>> \o OrderById(S \ {m})

\* .offset(n)
Offset(seq, n) == SubSeq(seq, n + 1, Len(seq))
\* .limit(n)
Limit(seq, n) == SubSeq(seq, 1, IF n < Len(seq) THEN n ELSE Len(seq))

\* Variant of PageOffset that skips the requested page as well.
PageOffsetFromZero(q) == q.page * q.page_size

\* The rows skipped before page q.page.
PageOffset(q) == (q.page - 1) * q.page_size

\* GET /products: [status, items, total]
get_all_products(q) ==
    IF q.min_price # -1 /\ q.max_price # -1 /\ q.min_price > q.max_price
    THEN [status |-> 400, items |-> <<>>, total |-> 0]
    ELSE [status |-> 200,
          items |-> Limit(Offset(OrderById({p \in ProductIds : Filters(q, products[p])}),
                                 PageOffset(q)),
                          q.page_size),
          total |-> Cardinality({p \in ProductIds : Filters(q, products[p])})]

\* The query parameters tried.
MaxPage == 3
MaxPageSize == 2
Searches == {<<>>, <<" ">>, <<" ", "B">>, <<"_">>}
QueriesFor(pages, sizes) ==
    [page : pages, page_size : sizes, category_id : {NULL, 1},
     search : Searches, min_price : {-1, 250}, max_price : {-1, 100, 250},
     in_stock : {"none", "true", "false"}, seller_id : {NULL, 1},
     created_at : {NULL, 2}]
Queries == QueriesFor(1..MaxPage, 1..MaxPageSize)

----------------------------------------------------------------------------
\* The requests.  A handler that ends within one database round is one step;
\* its inputs are drawn from the sets below.
IdInputs(max) == 1..max

CreateCategory ==
    /\ UNCHANGED req
    /\ \E name \in CategoryNames, parent_id \in {NULL} \cup IdInputs(MaxCategories) :
          create_category(name, parent_id)

UpdateCategory ==
    /\ UNCHANGED req
    /\ \E category_id \in IdInputs(MaxCategories), name \in CategoryNames,
          parent_set \in BOOLEAN, parent \in {NULL} \cup IdInputs(MaxCategories) :
          /\ ~parent_set => parent = NULL
          /\ update_category(category_id, name, parent_set, parent)

DeleteCategory ==
    /\ UNCHANGED req
    /\ \E category_id \in IdInputs(MaxCategories) : delete_category(category_id)

GetAllCategories ==
    /\ resp' = Response("get_all_categories", NoArg, 200, get_all_categories)
    /\ UNCHANGED <<db, req>>

CreateProduct ==
    /\ UNCHANGED req
    /\ \E form \in ProductForms, category_id \in IdInputs(MaxCategories),
          image \in Images, current_user \in Sellers, now \in Times :
          create_product(ProductCreate(form, category_id), image, current_user, now)

UpdateProduct ==
    /\ UNCHANGED req
    /\ \E product_id \in IdInputs(MaxProducts), form \in ProductForms,
          category_id \in IdInputs(MaxCategories), image \in Images,
          current_user \in Sellers :
          update_product(product_id, ProductCreate(form, category_id), image, current_user)

DeleteProduct ==
    /\ UNCHANGED req
    /\ \E product_id \in IdInputs(MaxProducts), current_user \in Sellers :
          delete_product(product_id, current_user)

GetProductsByCategory ==
    /\ \E category_id \in IdInputs(MaxCategories) :
          resp' = Response("get_products_by_category", Arg(category_id, NULL, NULL),
                           get_products_by_category(category_id).status,
                           get_products_by_category(category_id).body)
    /\ UNCHANGED <<db, req>>

GetProduct ==
    /\ \E product_id \in IdInputs(MaxProducts) :
          resp' = Response("get_product", Arg(product_id, NULL, NULL), get_product(product_id).status,
                           get_product(product_id).body)
    /\ UNCHANGED <<db, req>>

GetProductReviews ==
    /\ \E product_id \in IdInputs(MaxProducts) :
          resp' = Response("get_product_reviews", Arg(product_id, NULL, NULL),
                           get_product_reviews(product_id).status,
                           get_product_reviews(product_id).body)
    /\ UNCHANGED <<db, req>>

GetAllProducts(Q) ==
    /\ \E q \in Q :
          resp' = [op |-> "get_all_products", arg |-> NoArg,
                   status |-> get_all_products(q).status,
                   body |-> {get_all_products(q).items[i] :
                                i \in 1..Len(get_all_products(q).items)},
                   items |-> get_all_products(q).items,
                   total |-> get_all_products(q).total,
                   query |-> q]
    /\ UNCHANGED <<db, req>>

GetAllReviews ==
    /\ resp' = Response("get_all_reviews", NoArg, 200, get_all_reviews)
    /\ UNCHANGED <<db, req>>

\* A new review request takes the first free slot (which slot is immaterial).
FreeSlot(r) == req[r].pc = "idle" /\ \A q \in Reqs : q < r => req[q].pc # "idle"

CreateNewReview ==
    \E r \in Reqs, product_id \in IdInputs(MaxProducts), grade \in GradeInputs,
       current_user \in Buyers :
       FreeSlot(r) /\ create_new_review(r, product_id, grade, current_user)

\* get_current_user: any role; one caller of each role is tried.
ReviewCallers == {CHOOSE u \in Users : Role(u) = role : role \in {"seller", "buyer", "admin"}}

DeleteReview ==
    \E r \in Reqs, review_id \in IdInputs(MaxReviews), current_user \in ReviewCallers :
       FreeSlot(r) /\ delete_review(r, review_id, current_user)

CreateCommit == \E r \in Reqs : create_commit(r)
DeleteCommit == \E r \in Reqs : delete_commit(r)
RatingSelectAvg == \E r \in Reqs : rating_select_avg(r)
RatingGetProduct == \E r \in Reqs : rating_get_product(r)
RatingCommit == \E r \in Reqs : rating_commit(r)

----------------------------------------------------------------------------------------------------------------------------------------------
\* The whole backend from an empty database.
Init ==
    /\ categories = <<>>
    /\ products = <<>>
    /\ reviews = <<>>
    /\ files = {}
    /\ uploads = 0
    /\ req = [r \in Reqs |-> NoRequest]
    /\ resp = NoResponse

Next ==
    \/ CreateCategory
    \/ UpdateCategory
    \/ DeleteCategory
    \/ GetAllCategories
    \/ CreateProduct
    \/ UpdateProduct
    \/ DeleteProduct
    \/ GetProductsByCategory
    \/ GetProduct
    \/ GetProductReviews
    \/ GetAllProducts(Queries)
    \/ GetAllReviews
    \/ CreateNewReview
    \/ DeleteReview
    \/ CreateCommit
    \/ DeleteCommit
    \/ RatingSelectAvg
    \/ RatingGetProduct
    \/ RatingCommit

Spec == Init /\ [][Next]_vars

----------------------------------------------------------------------------
\* The subsystems.  Each specification below starts from a database the
\* backend can reach and runs the handlers of one subsystem, so that its
\* state space can be enumerated.

\* Rows as the create handlers insert them.
CategoryRow(name, parent_id) == [name |-> name, is_active |-> TRUE, parent_id |-> parent_id]
ProductRow(form, category_id, seller_id, image_url, now) ==
    [name |-> form.name, description |-> form.description, price |-> form.price,
     stock |-> form.stock, category_id |-> category_id, seller_id |-> seller_id,
     image_url |-> image_url, rating |-> DefaultRating, is_active |-> TRUE,
     created_at |-> now]
ReviewRow(user_id, product_id, grade) ==
    [user_id |-> user_id, product_id |-> product_id, grade |-> grade, is_active |-> TRUE]

FormA == CHOOSE f \in ProductForms : f.price = 100
FormB == CHOOSE f \in ProductForms : f.price = 250

\* Categories only, from the empty table.
NextCategory ==
    \/ CreateCategory
    \/ UpdateCategory
    \/ DeleteCategory
    \/ GetAllCategories

SpecCategory == Init /\ [][NextCategory]_vars

\* Products over two categories, one of them soft-deleted.
InitProduct ==
    /\ categories = <<CategoryRow("phones", NULL),
                      [CategoryRow("laptops", 1) EXCEPT !.is_active = FALSE]>>
    /\ products = <<>>
    /\ reviews = <<>>
    /\ files = {}
    /\ uploads = 0
    /\ req = [r \in Reqs |-> NoRequest]
    /\ resp = NoResponse

NextProduct ==
    \/ CreateProduct
    \/ UpdateProduct
    \/ DeleteProduct
    \/ GetProduct

SpecProduct == InitProduct /\ [][NextProduct]_vars

\* Reviews of two products of two sellers, requests served one at a time: a
\* request starts only when none is in flight.
InitReview ==
    /\ categories = <<CategoryRow("phones", NULL)>>
    /\ products = <<ProductRow(FormA, 1, 1, NULL, 1), ProductRow(FormB, 1, 2, NULL, 1)>>
    /\ reviews = <<>>
    /\ files = {}
    /\ uploads = 0
    /\ req = [r \in Reqs |-> NoRequest]
    /\ resp = NoResponse

NextRating ==
    \/ AllIdle /\ CreateNewReview
    \/ AllIdle /\ DeleteReview
    \/ CreateCommit
    \/ DeleteCommit
    \/ RatingSelectAvg
    \/ RatingGetProduct
    \/ RatingCommit

SpecRating == InitReview /\ [][NextRating]_vars

\* Review requests served concurrently, on one product that has one review.
InitRace ==
    /\ categories = <<CategoryRow("phones", NULL)>>
    /\ products = <<[ProductRow(FormA, 1, 1, NULL, 1) EXCEPT !.rating = <<4, 1>>]>>
    /\ reviews = <<ReviewRow(3, 1, 4)>>
    /\ files = {}
    /\ uploads = 0
    /\ req = [r \in Reqs |-> NoRequest]
    /\ resp = NoResponse

NextRace ==
    \/ CreateNewReview
    \/ DeleteReview
    \/ CreateCommit
    \/ DeleteCommit
    \/ RatingSelectAvg
    \/ RatingGetProduct
    \/ RatingCommit

SpecRace == InitRace /\ [][NextRace]_vars

\* Review requests served concurrently while the seller deletes the product.
NextOrphan ==
    \/ CreateNewReview
    \/ DeleteReview
    \/ CreateCommit
    \/ DeleteCommit
    \/ RatingSelectAvg
    \/ RatingGetProduct
    \/ RatingCommit
    \/ DeleteProduct

SpecOrphan == InitRace /\ [][NextOrphan]_vars

\* The catalog query engine over product tables drawn from CatalogRows.
CatalogRows ==
    {[ProductRow(form, category_id, IF (form = FormA) = (category_id = 1) THEN 1 ELSE 2,
                 NULL, category_id) EXCEPT !.is_active = ~(form = FormB /\ category_id = 2)] :
        form \in ProductForms, category_id \in 1..2}

RECURSIVE Tables(_)
Tables(n) ==
    IF n = 0 THEN {<<>>}
    ELSE Tables(n - 1) \cup {Append(t, row) : t \in {u \in Tables(n - 1) : Len(u) = n - 1},
                                               row \in CatalogRows}

InitCatalog ==
    /\ categories = <<CategoryRow("phones", NULL), CategoryRow("laptops", NULL)>>
    /\ products \in Tables(MaxCatalog)
    /\ reviews = <<>>
    /\ files = {}
    /\ uploads = 0
    /\ req = [r \in Reqs |-> NoRequest]
    /\ resp = NoResponse

\* One query is put to each table.
NextCatalog ==
    \/ resp = NoResponse /\ GetAllProducts(Queries)

SpecCatalog == InitCatalog /\ [][NextCatalog]_vars

\* The soft-delete policy over a populated database: two categories (parent
\* and child), a product in each, and reviews of both products.
InitDelete ==
    /\ categories = <<CategoryRow("phones", NULL), CategoryRow("laptops", 1)>>
    /\ products = <<[ProductRow(FormA, 1, 1, 1, 1) EXCEPT !.rating = <<4, 1>>],
                    [ProductRow(FormB, 2, 2, NULL, 1) EXCEPT !.rating = <<4, 1>>]>>
    /\ reviews = <<ReviewRow(3, 1, 5), ReviewRow(3, 1, 3), ReviewRow(3, 2, 4)>>
    /\ files = {1}
    /\ uploads = 1
    /\ req = [r \in Reqs |-> NoRequest]
    /\ resp = NoResponse

PageQueries == {[NoQuery EXCEPT !.page = k, !.page_size = n] :
                   k \in 1..MaxPage, n \in 1..MaxPageSize}

NextDelete ==
    \/ AllIdle /\ DeleteCategory
    \/ AllIdle /\ DeleteProduct
    \/ AllIdle /\ DeleteReview
    \/ DeleteCommit
    \/ RatingSelectAvg
    \/ RatingGetProduct
    \/ RatingCommit
    \/ AllIdle /\ GetAllCategories
    \/ AllIdle /\ GetProductsByCategory
    \/ AllIdle /\ GetProduct
    \/ AllIdle /\ GetProductReviews
    \/ AllIdle /\ GetAllProducts(PageQueries)
    \/ AllIdle /\ GetAllReviews

SpecDelete == InitDelete /\ [][NextDelete]_vars

\* The writers of the category and product tables, one request on each of a
\* set of databases the backend can reach: one or two categories, a rated
\* product with two reviews and an image, and possibly a second product.
StoreCategories ==
    {<<[CategoryRow("phones", NULL) EXCEPT !.is_active = a]>> : a \in BOOLEAN}
    \cup {<<[CategoryRow("phones", NULL) EXCEPT !.is_active = a],
            [CategoryRow("laptops", 1) EXCEPT !.is_active = b]>> : a, b \in BOOLEAN}

StoreProducts ==
    {<<[ProductRow(FormA, 1, 1, 1, 1) EXCEPT !.rating = <<9, 2>>, !.is_active = a]>> :
        a \in BOOLEAN}
    \cup {<<[ProductRow(FormA, 1, 1, 1, 1) EXCEPT !.rating = <<9, 2>>, !.is_active = a],
            ProductRow(FormB, c, 2, NULL, 2)>> : a \in BOOLEAN, c \in 1..2}

InitStore ==
    /\ categories \in StoreCategories
    /\ products \in StoreProducts
    /\ \A p \in 1..Len(products) : products[p].category_id <= Len(categories)
    /\ reviews = <<ReviewRow(3, 1, 5), ReviewRow(3, 1, 4)>>
    /\ files = {1}
    /\ uploads = 1
    /\ req = [r \in Reqs |-> NoRequest]
    /\ resp = NoResponse

NextStore ==
    \/ resp = NoResponse /\ CreateCategory
    \/ resp = NoResponse /\ UpdateCategory
    \/ resp = NoResponse /\ DeleteCategory
    \/ resp = NoResponse /\ CreateProduct
    \/ resp = NoResponse /\ UpdateProduct
    \/ resp = NoResponse /\ DeleteProduct

SpecStore == InitStore /\ [][NextStore]_vars

----------------------------------------------------------------------------
\* Properties.

\* The grades of the active reviews of product p, added up review by review.
RECURSIVE GradeTotal(_, _)
GradeTotal(p, k) ==
    IF k = 0 THEN 0
    ELSE GradeTotal(p, k - 1)
         + (IF reviews[k].product_id = p /\ reviews[k].is_active THEN reviews[k].grade ELSE 0)

ActiveCount(p) ==
    Cardinality({k \in 1..Len(reviews) : reviews[k].product_id = p /\ reviews[k].is_active})

\* The stored rating num/den of product p is the mean of its active grades
\* (num/den = total/count), and 0 when it has no active review.
RatingIsMean(p) ==
    LET num == products[p].rating[1]
        den == products[p].rating[2]
    IN /\ den > 0
       /\ IF ActiveCount(p) = 0 THEN num = 0
          ELSE num * ActiveCount(p) = GradeTotal(p, Len(reviews)) * den

\* C1: with review requests served one at a time, whenever no request is in
\* flight every product's stored rating is the arithmetic mean of the grades of
\* its active reviews, and 0 when it has none.
C1_RatingIsMeanWhenSerial ==
    AllIdle => \A p \in 1..Len(products) : RatingIsMean(p)

\* C1 witness: grades 5, 3 and 4 were given to one product, the grade 3 review
\* was soft-deleted, and the rating is 9/2.
C1_Witness ==
    /\ AllIdle
    /\ \E p \in 1..Len(products) :
          /\ products[p].rating = <<9, 2>>
          /\ \E a, b, c \in 1..Len(reviews) :
                /\ reviews[a].product_id = p /\ reviews[a].grade = 5 /\ reviews[a].is_active
                /\ reviews[b].product_id = p /\ reviews[b].grade = 3 /\ ~reviews[b].is_active
                /\ reviews[c].product_id = p /\ reviews[c].grade = 4 /\ reviews[c].is_active

\* The mean of the grades of the reviews in S, as a condition on num/den.
IsMeanOf(rating, S) ==
    /\ rating[2] > 0
    /\ IF S = {} THEN rating[1] = 0
       ELSE rating[1] * Cardinality(S) = SumGrades(S) * rating[2]

\* C2: a review mutation reads the active grades of its product in one step
\* and writes the rating in a later step; what it writes is the mean of the
\* grades it read, whatever the reviews are by then.  (The witness is the race:
\* with no request left in flight, a rating that is not the mean.)
C2_WritesTheSnapshotMean ==
    [][\A r \in Reqs :
          /\ (req[r].pc = "select_avg" /\ req'[r].pc = "get_product")
                => req'[r].seen = {k \in 1..Len(reviews) :
                                      reviews[k].product_id = req[r].product_id
                                      /\ reviews[k].is_active}
          /\ (req[r].pc = "commit_rating" /\ req'[r].pc = "idle")
                => /\ IsMeanOf(products'[req[r].product_id].rating, req[r].seen)
                   /\ \A p \in 1..Len(products) :
                         p # req[r].product_id => products'[p] = products[p]]_vars

\* C2 witness: both requests have completed and the stored rating of a product
\* is not the mean of the grades of its active reviews.
C2_Witness ==
    /\ AllIdle
    /\ \E p \in 1..Len(products) : ~RatingIsMean(p)

----------------------------------------------------------------------------
\* text occurs in name as a substring, letter case ignored.
ContainsIgnoreCase(name, text) ==
    \E i \in 0..(Len(name) - Len(text)) :
       \A j \in 1..Len(text) : Lower(name[i + j]) = Lower(text[j])

\* Product row p passes every filter that query q supplies (the search being
\* a case-insensitive substring search for the trimmed text).
SatisfiesSupplied(q, p) ==
    /\ q.category_id # NULL => p.category_id = q.category_id
    /\ Strip(q.search) # <<>> => ContainsIgnoreCase(p.name, Strip(q.search))
    /\ q.min_price # -1 => p.price >= q.min_price
    /\ q.max_price # -1 => p.price <= q.max_price
    /\ q.in_stock = "true" => p.stock > 0
    /\ q.in_stock = "false" => p.stock = 0
    /\ q.seller_id # NULL => p.seller_id = q.seller_id
    /\ q.created_at # NULL => p.created_at >= q.created_at

\* C3: get_all_products answers 400 when min_price > max_price; otherwise every
\* item returned is active and passes every supplied filter, and total is the
\* number of active products that pass them all, whatever the page.
C3_ItemsSatisfyFilters ==
    resp.op = "get_all_products" =>
        LET q == resp.query IN
        IF q.min_price # -1 /\ q.max_price # -1 /\ q.min_price > q.max_price
        THEN resp.status = 400
        ELSE /\ resp.status = 200
             /\ \A i \in 1..Len(resp.items) :
                   /\ products[resp.items[i]].is_active
                   /\ SatisfiesSupplied(q, products[resp.items[i]])
             /\ resp.total = Cardinality({p \in 1..Len(products) :
                                  products[p].is_active /\ SatisfiesSupplied(q, products[p])})

\* The products that the filters of query q select, and the number of them
\* that precede product x in id order.
Matches(q) == {p \in 1..Len(products) : Filters(q, products[p])}
Position(q, x) == Cardinality({y \in Matches(q) : y < x})

\* The ids on page k of query q.
PageIds(q, k) ==
    LET page == get_all_products([q EXCEPT !.page = k]).items
    IN {page[i] : i \in 1..Len(page)}

\* C4: for an accepted query, the page returned lists in ascending id order
\* exactly the matches at positions (page-1)*page_size .. page*page_size-1;
\* total is the number of matches on every page; two pages of the same query
\* are disjoint, the pages together are the matches, and a page past the last
\* match is empty.
C4_PagesAreContiguousSlices ==
    (resp.op = "get_all_products" /\ resp.status = 200) =>
        LET q == resp.query
            n == q.page_size
            last == (Cardinality(Matches(q)) + n - 1) \div n
        IN /\ \A i \in 1..Len(resp.items) :
                 /\ resp.items[i] \in Matches(q)
                 /\ Position(q, resp.items[i]) = (q.page - 1) * n + (i - 1)
           /\ \A x \in Matches(q) :
                 ((q.page - 1) * n <= Position(q, x) /\ Position(q, x) < q.page * n)
                    => \E i \in 1..Len(resp.items) : resp.items[i] = x
           /\ resp.total = Cardinality(Matches(q))
           /\ \A k \in 1..(last + 1) :
                 /\ get_all_products([q EXCEPT !.page = k]).total = resp.total
                 /\ k # q.page => PageIds(q, k) \cap PageIds(q, q.page) = {}
                 /\ k > last => PageIds(q, k) = {}
           /\ UNION {PageIds(q, k) : k \in 1..(last + 1)} = Matches(q)

\* C4 witness: page 2 of size 2 over three matches holds the third match alone.
C4_Witness ==
    /\ resp.op = "get_all_products"
    /\ resp.status = 200
    /\ resp.query.page = 2
    /\ resp.query.page_size = 2
    /\ resp.total = 3
    /\ Len(resp.items) = 1
    /\ Position(resp.query, resp.items[1]) = 2

----------------------------------------------------------------------------
\* What the claims below call unchanged: the rows of the three tables and the
\* stored image files.
stored == <<categories, products, reviews, files>>

\* C5: a delete of a category, product or review that is already inactive is
\* answered 404 and changes no row and no stored file; a delete_review of an
\* inactive review never gets past its lookup.
C5_SecondDeleteIsNotFound ==
    [][/\ \A id \in 1..Len(categories) :
             (resp'.op = "delete_category" /\ resp'.arg.id = id /\ ~categories[id].is_active)
                => (resp'.status = 404 /\ UNCHANGED stored)
       /\ \A id \in 1..Len(products) :
             (resp'.op = "delete_product" /\ resp'.arg.id = id /\ ~products[id].is_active)
                => (resp'.status = 404 /\ UNCHANGED stored)
       /\ \A id \in 1..Len(reviews) :
             (resp'.op = "delete_review" /\ resp'.arg.id = id /\ req' = req
              /\ ~reviews[id].is_active)
                => (resp'.status = 404 /\ UNCHANGED stored)
       /\ \A r \in Reqs :
             (req[r].pc = "idle" /\ req'[r].pc = "commit_delete")
                => reviews[req'[r].review_id].is_active]_vars

\* C5 witness: delete_product was called on a product that is inactive and
\* whose image file is gone, and answered 404.
C5_Witness ==
    /\ resp.op = "delete_product"
    /\ resp.status = 404
    /\ resp.arg.id \in 1..Len(products)
    /\ ~products[resp.arg.id].is_active
    /\ products[resp.arg.id].image_url # NULL
    /\ products[resp.arg.id].image_url \notin files

\* C6: update_product and delete_product called by a seller on an active
\* product of another seller are answered 403 and leave the products table
\* and the stored image files as they were.
C6_ForeignSellerIsForbidden ==
    [][\A id \in 1..Len(products) :
          (/\ resp'.op \in {"update_product", "delete_product"}
           /\ resp'.arg.id = id
           /\ products[id].is_active
           /\ products[id].seller_id # resp'.arg.user)
             => (resp'.status = 403 /\ products' = products /\ files' = files)]_vars

\* C6 witness: a seller's delete_product on another seller's active product,
\* which has a stored image, was answered 403.
C6_Witness ==
    /\ resp.op = "delete_product"
    /\ resp.status = 403
    /\ products[resp.arg.id].is_active
    /\ products[resp.arg.id].seller_id # resp.arg.user
    /\ products[resp.arg.id].image_url \in files

C8_RejectionChangesNothing ==
    [][resp'.status \in {400, 422} => UNCHANGED stored]_vars

\* C9: what a read endpoint returns is active: the categories of
\* get_all_categories, the products of get_all_products (under every filter)
\* and get_products_by_category, the reviews of get_all_reviews and
\* get_product_reviews.
C9_ReadsReturnOnlyActive ==
    /\ resp.op = "get_all_categories" => \A c \in resp.body : categories[c].is_active
    /\ resp.op \in {"get_all_products", "get_products_by_category"}
          => \A p \in resp.body : products[p].is_active
    /\ resp.op \in {"get_all_reviews", "get_product_reviews"}
          => \A v \in resp.body : reviews[v].is_active
    /\ \A q \in QueriesFor({1}, {MaxPageSize}) :
          \A p \in PageIds(q, 1) \cup PageIds(q, 2) : products[p].is_active

\* C9 witness: get_all_reviews returned a review while another review, which
\* was soft-deleted, is not in the result.
C9_Witness ==
    /\ resp.op = "get_all_reviews"
    /\ resp.body # {}
    /\ \E v \in 1..Len(reviews) : ~reviews[v].is_active /\ v \notin resp.body

\* C10: the delete handlers remove no row; delete_category changes nothing but
\* the is_active flag of its category (children and products keep is_active,
\* parent_id and category_id), delete_product nothing but the flag of its
\* product, and delete_review nothing but the flag of its review and the
\* ratings.
C10_DeleteIsLogicalAndLocal ==
    [][/\ Len(categories') = Len(categories)
       /\ Len(products') = Len(products)
       /\ Len(reviews') = Len(reviews)
       /\ (resp'.op = "delete_category" /\ resp'.status = 200)
             => /\ products' = products
                /\ reviews' = reviews
                /\ ~categories'[resp'.arg.id].is_active
                /\ \A c \in 1..Len(categories) :
                      categories'[c] = [categories[c] EXCEPT !.is_active =
                                           IF c = resp'.arg.id THEN FALSE ELSE @]
       /\ (resp'.op = "delete_product" /\ resp'.status = 200)
             => /\ categories' = categories
                /\ reviews' = reviews
                /\ ~products'[resp'.arg.id].is_active
                /\ \A p \in 1..Len(products) :
                      products'[p] = [products[p] EXCEPT !.is_active =
                                         IF p = resp'.arg.id THEN FALSE ELSE @]
       /\ \A r \in Reqs :
             (req[r].op = "delete_review" /\ req'[r] # req[r])
                => /\ categories' = categories
                   /\ \A p \in 1..Len(products) :
                         products'[p] = [products[p] EXCEPT !.rating = products'[p].rating]
                   /\ \A v \in 1..Len(reviews) :
                         reviews'[v] = [reviews[v] EXCEPT !.is_active =
                               IF req[r].pc = "commit_delete" /\ v = req[r].review_id
                               THEN FALSE ELSE @]]_vars

\* C10 witness: category 1 was deleted while its child category 2 and its
\* product 1 are still active and still refer to it.
C10_Witness ==
    /\ resp.op = "delete_category"
    /\ resp.status = 200
    /\ resp.arg.id = 1
    /\ ~categories[1].is_active
    /\ categories[2].parent_id = 1 /\ categories[2].is_active
    /\ products[1].category_id = 1 /\ products[1].is_active


----------------------------------------------------------------------------
\* C11: delete_review on an active review by a caller who is neither its author
\* nor an admin answers 403 and changes nothing stored (the review stays
\* active, the rating is the same); the request goes on only for the author or
\* an admin, and when it answers 200 the review is inactive and the rating of
\* its product is the mean of the grades that are active then.
C11_DeleteReviewAuthorOrAdmin ==
    [][/\ (resp'.op = "delete_review" /\ resp'.status = 404)
             => ~ActiveReview(resp'.arg.id)
       /\ (resp'.op = "delete_review" /\ resp'.status = 403)
             => /\ ActiveReview(resp'.arg.id)
                /\ Role(resp'.arg.user) # "admin"
                /\ reviews[resp'.arg.id].user_id # resp'.arg.user
                /\ UNCHANGED stored
                /\ reviews'[resp'.arg.id].is_active
       /\ \A r \in Reqs :
             (req[r].pc = "idle" /\ req'[r].op = "delete_review")
                => /\ ActiveReview(req'[r].review_id)
                   /\ \/ Role(req'[r].user) = "admin"
                      \/ reviews[req'[r].review_id].user_id = req'[r].user
       /\ (resp'.op = "delete_review" /\ resp'.status = 200)
             => /\ \/ Role(resp'.arg.user) = "admin"
                   \/ reviews[resp'.arg.id].user_id = resp'.arg.user
                /\ ~reviews'[resp'.arg.id].is_active
                /\ \A p \in 1..Len(products) :
                      p = reviews[resp'.arg.id].product_id => RatingIsMean(p)']_vars

\* C11 witness: an admin who is not the author deleted the grade 3 review of a
\* product whose other review has grade 5, and the rating is 5.
C11_Witness ==
    /\ resp.op = "delete_review" /\ resp.status = 200
    /\ Role(resp.arg.user) = "admin"
    /\ reviews[resp.arg.id].user_id # resp.arg.user
    /\ reviews[resp.arg.id].grade = 3
    /\ ~reviews[resp.arg.id].is_active
    /\ products[reviews[resp.arg.id].product_id].rating = <<5, 1>>

\* A caller who is neither the author nor an admin was answered 403.
C11_Forbidden ==
    /\ resp.op = "delete_review" /\ resp.status = 403
    /\ Role(resp.arg.user) = "seller"
    /\ reviews[resp.arg.id].is_active


----------------------------------------------------------------------------
\* The columns of a product row that update_product may not change.
KeptByUpdate(row) ==
    [seller_id |-> row.seller_id, rating |-> row.rating,
     is_active |-> row.is_active, created_at |-> row.created_at]

\* C12: create_product, update_product, delete_product and the category
\* handlers leave the rating of every existing product as it was; an
\* update_product changes no row but its target, and of that row nothing but
\* name, description, price, stock, category_id and image_url.
C12_RatingWrittenByAggregatorOnly ==
    [][/\ resp'.op \in {"create_category", "update_category", "delete_category",
                        "create_product", "update_product", "delete_product"}
             => \A p \in 1..Len(products) : products'[p].rating = products[p].rating
       /\ resp'.op = "update_product"
             => /\ Len(products') = Len(products)
                /\ \A p \in 1..Len(products) :
                      IF p = resp'.arg.id
                      THEN KeptByUpdate(products'[p]) = KeptByUpdate(products[p])
                      ELSE products'[p] = products[p]
       /\ (\E p \in 1..Len(products) : products'[p].rating # products[p].rating)
             => \E r \in Reqs : req[r].pc = "commit_rating" /\ req'[r].pc = "idle"]_vars

\* C12 witness: the owner updated the rated product (new name, new image) and
\* its rating is still 9/2.
C12_Witness ==
    /\ resp.op = "update_product" /\ resp.status = 200
    /\ products[resp.arg.id].name = FormB.name
    /\ products[resp.arg.id].image_url = 2
    /\ products[resp.arg.id].rating = <<9, 2>>


----------------------------------------------------------------------------
\* C13: with review requests and product deletes interleaved in any way, every
\* review names a product row that exists, every request that has reached
\* update_product_rating names one too, and no review request ends in a
\* server error because db.get found no product.
C13_ReviewProductExists ==
    /\ \A v \in 1..Len(reviews) : reviews[v].product_id \in 1..Len(products)
    /\ \A r \in Reqs :
          req[r].pc \in {"select_avg", "get_product", "commit_rating"}
             => req[r].product_id \in 1..Len(products)
    /\ resp.status # 500

\* C13 witness: a review was created (201) for a product that was active when
\* the request began and is soft-deleted by the time the rating was written.
C13_Witness ==
    /\ resp.op = "create_new_review" /\ resp.status = 201
    /\ resp.arg.id \in 1..Len(reviews)
    /\ ~products[reviews[resp.arg.id].product_id].is_active


----------------------------------------------------------------------------
\* The category reached from c by following parent_id n times (NULL when the
\* chain ends before).
RECURSIVE AncestorAt(_, _)
AncestorAt(c, n) ==
    IF n = 0 THEN c
    ELSE IF AncestorAt(c, n - 1) = NULL THEN NULL
    ELSE categories[AncestorAt(c, n - 1)].parent_id

\* C14: the parent_id relation over categories is a forest: following
\* parent_id from a category, by any number of steps, never leads back to that
\* category; in particular no category is its own parent.
C14_CategoriesFormForest ==
    \A c \in 1..Len(categories) :
       \A n \in 1..Len(categories) : AncestorAt(c, n) # c

\* A category that is its own parent.
C14_SelfParent ==
    \E c \in 1..Len(categories) : categories[c].parent_id = c

\* Two categories that are each other's parent.
C14_TwoCycle ==
    \E c, d \in 1..Len(categories) :
       c # d /\ categories[c].parent_id = d /\ categories[d].parent_id = c


----------------------------------------------------------------------------
\* C15: every product that get_all_products returns is returned by
\* get_product (status 200), and get_product fails only for an id that names
\* no product or an inactive one.
C15_ListingAgreesWithGetProduct ==
    /\ \A p \in 1..Len(products) :
          (\E q \in PageQueries :
              /\ get_all_products(q).status = 200
              /\ \E i \in 1..Len(get_all_products(q).items) :
                    get_all_products(q).items[i] = p)
             => get_product(p).status = 200
    /\ \A p \in 1..MaxProducts :
          get_product(p).status # 200
             => ~(p \in 1..Len(products) /\ products[p].is_active)

\* An active product of a soft-deleted category: it is listed, and the
\* response to get_product for it is 400.
C15_ListedButRejected ==
    /\ resp.op = "get_product" /\ resp.status = 400
    /\ products[resp.arg.id].is_active
    /\ ~categories[products[resp.arg.id].category_id].is_active
    /\ \E q \in PageQueries :
          \E i \in 1..Len(get_all_products(q).items) :
             get_all_products(q).items[i] = resp.arg.id

====
